---- MODULE Spec2Model ----
(***************************************************************************)
(* Generic Multicast (GM-Cast) protocol engine of go-mcast: the Peer of    *)
(* pkg/mcast/protocol.go (package core), its received queue, Memo,         *)
(* previousSet, logical clock, deliverable and observers.                  *)
(*                                                                         *)
(* Every goroutine the peer spawns (Command's apply, process,              *)
(* reprocessMessage, the notification of doDeliver) is a task of the       *)
(* peer; a task advances one lock-protected operation at a time, so that   *)
(* the tasks of one peer interleave as the goroutines do.                  *)
(***************************************************************************)
EXTENDS Integers, Sequences, FiniteSets, Bags, TLC

(***************************************************************************)
(* Bounds of the model.                                                    *)
(***************************************************************************)
\* How many identical copies of one message may wait at one peer at once.
MaxCopies == 1
\* How many goroutines of one peer may be between two of their steps at once
\* (the other goroutines of the peer have not started yet).
MaxActive == 2

(***************************************************************************)
(* The cluster: partition P holds two peers, partitions Q and R one each.  *)
(***************************************************************************)
Partitions == {"P", "Q", "R"}
Peers == {"p1", "p2", "q1", "r1"}
PartitionOf(p) ==
    CASE p = "p1" -> "P" [] p = "p2" -> "P" [] p = "q1" -> "Q" [] p = "r1" -> "R"
PeersOf(part) == {p \in Peers : PartitionOf(p) = part}

(***************************************************************************)
(* The messages the clients may issue, all of them writes: identifier,     *)
(* destination, key of the content, and the peer whose Command is called.  *)
(*   a, b : to {P}, key k1, from p1 and p2 (the peers of one partition)    *)
(*   c    : to {Q, R}, key k1, from q1                                     *)
(*   d    : to {Q}, key k2, from q1 (conflicts with nothing)               *)
(*   e    : to {Q}, key k1, from q1 (conflicts with c)                     *)
(* A workload is the set of messages the clients issue in one run.         *)
(***************************************************************************)
UIDs == {"a", "b", "c", "d", "e"}
Destination(id) ==
    CASE id \in {"a", "b"} -> {"P"} [] id = "c" -> {"Q", "R"}
      [] id \in {"d", "e"} -> {"Q"}
\* The destination as the slice the client wrote: Broadcast walks it in
\* this order.
DestinationList(id) ==
    CASE id \in {"a", "b"} -> <<"P">> [] id = "c" -> <<"Q", "R">>
      [] id \in {"d", "e"} -> <<"Q">>
Key(id) == IF id = "d" THEN "k2" ELSE "k1"
\* types.Message.Content of a write: the key and the value written.
Content(id) == [key |-> Key(id), value |-> id]
Origin(id) == CASE id = "a" -> "p1" [] id = "b" -> "p2" [] OTHER -> "q1"
Workloads == {{"a", "b"}, {"c", "d"}, {"c", "e"}}
\* UIDs compare bytewise.
UIDRank(id) ==
    CASE id = "a" -> 1 [] id = "b" -> 2 [] id = "c" -> 3 [] id = "d" -> 4
      [] id = "e" -> 5

States == {"S0", "S1", "S2", "S3"}
StateRank(s) == CASE s = "S0" -> 0 [] s = "S1" -> 1 [] s = "S2" -> 2 [] s = "S3" -> 3

VARIABLES
    clock,        \* Peer.clock: the peer's logical clock
    previousSet,  \* Peer.previousSet: identifiers of the recent messages
    received,     \* Peer.received (Memo): id -> {partition, timestamp}
    rqueue,       \* Peer.rqueue: the entries of the received queue
    log,          \* the peer's log: the committed messages in commit order
    observers,    \* Peer.observers: identifiers with a waiting observer
    tasks,        \* the goroutines of each peer (a bag of task records)
    workload,     \* the identifiers the clients issue in this run
    issued,       \* identifiers for which Command was called
    answered,     \* per identifier, the writes answered when it was issued
    channel,      \* per identifier, the Responses sent on Command's channel
    closed,       \* identifiers whose Command channel is closed
    stopped,      \* the peers on which Stop has returned
    afterStop,    \* identifiers whose Command was called on a stopped peer
    fastRead,     \* the Response of the last FastRead
    storage,      \* a Storage on its own: the entries set so far
    calls,        \* the calls made on the Log or state machine over storage
    response      \* what the last call over storage returned

\* What the protocol steps of a running peer leave alone.
others == <<stopped, fastRead, storage, calls, response>>
vars == <<clock, previousSet, received, rqueue, log, observers, tasks,
          workload, issued, answered, channel, closed, afterStop, others>>

\* Configuration.Version of every peer, and the version carried by the
\* header of a message that comes from a sender of another version.
ProtocolVersion == 1
ForeignVersion == 2

(***************************************************************************)
(* Task records.  All tasks share one shape; unused fields hold "-" or 0.  *)
(* A process task carries the message with the version of its header.      *)
(***************************************************************************)
ProcessTask(id, type, state, ts, from, pc) ==
    [kind |-> "process", version |-> ProtocolVersion, conflicts |-> FALSE,
     next |-> 0, id |-> id,
     type |-> type, state |-> state, ts |-> ts, from |-> from, pc |-> pc, success |-> TRUE]
ReprocessTask(id, state, ts, pc) ==
    [kind |-> "reprocess", version |-> ProtocolVersion, conflicts |-> FALSE,
     next |-> 0, id |-> id,
     type |-> "-", state |-> state, ts |-> ts, from |-> "-", pc |-> pc, success |-> TRUE]
NotifyTask(id, success) ==
    [kind |-> "notify", version |-> ProtocolVersion, conflicts |-> FALSE,
     next |-> 0, id |-> id,
     type |-> "-", state |-> "-", ts |-> 0, from |-> "-", pc |-> "lock", success |-> success]
CommandTask(id, pc) ==
    [kind |-> "command", version |-> ProtocolVersion, conflicts |-> FALSE,
     next |-> 0, id |-> id,
     type |-> "-", state |-> "-", ts |-> 0, from |-> "-", pc |-> pc, success |-> TRUE]

One(t) == SetToBag({t})
Take(tk, p, t) == [tk EXCEPT ![p] = @ (-) One(t)]
Put(tk, targets, t) ==
    [q \in Peers |-> IF q \in targets THEN tk[q] (+) One(t) ELSE tk[q]]
Room(tk, targets, t) == \A q \in targets : CopiesIn(t, tk[q]) < MaxCopies
Pending(p) == BagToSet(tasks[p])
\* A task is active once it has taken its first step.
IsActive(t) == t.pc \in {"proto", "enq", "generic", "observe"}
RECURSIVE CountActive(_, _)
CountActive(bag, S) ==
    IF S = {} THEN 0
    ELSE LET t == CHOOSE x \in S : TRUE
         IN  (IF IsActive(t) THEN CopiesIn(t, bag) ELSE 0)
             + CountActive(bag, S \ {t})
Active(p) == CountActive(tasks[p], BagToSet(tasks[p]))
MayStart(p) == Active(p) < MaxActive

(***************************************************************************)
(* ConflictRelationship: the pluggable predicate of the peer.  Two         *)
(* messages conflict when their destinations overlap and they write the    *)
(* same key.                                                               *)
(***************************************************************************)
ConflictPair(m, n) ==
    /\ Destination(m) \cap Destination(n) # {}
    /\ Key(m) = Key(n)
Conflict(id, snapshot) == \E n \in snapshot : ConflictPair(id, n)

(***************************************************************************)
(* Memo: for each identifier the timestamps received, one per partition.   *)
(***************************************************************************)
MemoInsert_Keep(memo, id, part, ts) ==
    [memo EXCEPT ![id] = @ \cup {[partition |-> part, ts |-> ts]}]
\* Insert overwrites the entry of the partition.
MemoInsert(memo, id, part, ts) ==
    [memo EXCEPT ![id] = {e \in @ : e.partition # part}
                         \cup {[partition |-> part, ts |-> ts]}]
MemoRead(memo, id) == memo[id]
MemoRemove(memo, id) == [memo EXCEPT ![id] = {}]
MaxValue(values) ==
    IF values = {} THEN 0
    ELSE CHOOSE v \in {e.ts : e \in values} : \A e \in values : e.ts <= v

(***************************************************************************)
(* ReceivedQueue: entries [id, ts, state] ordered by (timestamp, id).      *)
(***************************************************************************)
Less(e1, e2) ==
    \/ e1.ts < e2.ts
    \/ e1.ts = e2.ts /\ UIDRank(e1.id) < UIDRank(e2.id)
QueueHead(q) == CHOOSE e \in q : \A o \in q \ {e} : Less(e, o)
Ahead(q, e) == {o \in q : Less(o, e)}
GetIfExists(q, id) == {e \in q : e.id = id}
Committed(p) == {log[p][i].id : i \in 1..Len(log[p])}
IsEligible(p, id) == id \notin Committed(p)
\* An existing entry is replaced when the new state is at least as
\* advanced or the timestamp strictly advances.
Replaces(new, old) ==
    \/ StateRank(new.state) >= StateRank(old.state)
    \/ new.ts > old.ts
EnqueueAdvances(q, m) == \A e \in GetIfExists(q, m.id) : Replaces(m, e)
Inserted(q, m) ==
    IF EnqueueAdvances(q, m) THEN {e \in q : e.id # m.id} \cup {m} ELSE q
HeadDelivery_Final(q) ==
    IF \E e \in q : e.state = "S3"
    THEN <<CHOOSE e \in q : e.state = "S3">>
    ELSE <<>>
\* After a mutation the head is delivered and popped while it is in S3.
RECURSIVE HeadDelivery(_)
HeadDelivery(q) ==
    IF q = {} THEN <<>>
    ELSE LET h == QueueHead(q)
         IN IF h.state = "S3" THEN <<h>> \o HeadDelivery(q \ {h}) ELSE <<>>
SeqToSet(s) == {s[i] : i \in 1..Len(s)}
Entry(id, ts, state) == [id |-> id, ts |-> ts, state |-> state]

(***************************************************************************)
(* Deliver.Commit and Peer.doDeliver for a sequence of delivered entries:  *)
(* the Memo entry is removed, the message is appended to the log and a     *)
(* notification task is spawned.  Only the peer on which Command was       *)
(* called can hold an observer for the identifier; the notification task   *)
(* of any other peer finds none and changes nothing, so it is left out.    *)
(***************************************************************************)
LogEntry(e, generic) ==
    [id |-> e.id, ts |-> e.ts, state |-> e.state, generic |-> generic]
RECURSIVE Commit(_, _, _)
Commit(lg, delivered, generic) ==
    IF delivered = <<>> THEN lg
    ELSE Commit(Append(lg, LogEntry(delivered[1], generic)),
                Tail(delivered), generic)
RECURSIVE RemoveAll(_, _)
RemoveAll(memo, delivered) ==
    IF delivered = <<>> THEN memo
    ELSE RemoveAll(MemoRemove(memo, delivered[1].id), Tail(delivered))
RECURSIVE SpawnNotify(_, _, _)
SpawnNotify(p, bag, delivered) ==
    IF delivered = <<>> THEN bag
    ELSE SpawnNotify(p,
                     IF p = Origin(delivered[1].id)
                     THEN bag (+) One(NotifyTask(delivered[1].id, TRUE))
                     ELSE bag,
                     Tail(delivered))

(***************************************************************************)
(* Peer.processInitialMessage: the message after the step together with    *)
(* the clock, previousSet and Memo of the peer.                            *)
(***************************************************************************)
HasManyDestinations_Always(id) == TRUE
\* len(message.Destination) > 1
HasManyDestinations(id) == Cardinality(Destination(id)) > 1
processInitialMessage(p, m) ==
    LET isS0 == m.state = "S0"
        conflicts == isS0 /\ Conflict(m.id, previousSet[p])
        clk == IF conflicts THEN clock[p] + 1 ELSE clock[p]
        prev == IF isS0
                THEN (IF conflicts THEN {} ELSE previousSet[p]) \cup {m.id}
                ELSE previousSet[p]
        ts == IF isS0 THEN clk ELSE m.ts
    IN  IF HasManyDestinations(m.id)
        THEN IF isS0
             THEN [clock |-> clk, previousSet |-> prev,
                   received |-> MemoInsert(received[p], m.id,
                                           PartitionOf(p), clk),
                   state |-> "S1", ts |-> clk, send |-> TRUE]
             ELSE IF m.state = "S2"
             THEN [clock |-> IF ts > clk THEN ts ELSE clk,
                   previousSet |-> IF ts > clk THEN {} ELSE prev,
                   received |-> received[p],
                   state |-> "S3", ts |-> ts, send |-> FALSE]
             ELSE [clock |-> clk, previousSet |-> prev,
                   received |-> received[p],
                   state |-> m.state, ts |-> ts, send |-> FALSE]
        ELSE [clock |-> clk, previousSet |-> prev,
              received |-> received[p],
              state |-> "S3", ts |-> clk, send |-> FALSE]

(***************************************************************************)
(* Peer.exchangeTimestamp: the Memo after the insert, whether the message  *)
(* is to be enqueued, and its state and timestamp.                         *)
(***************************************************************************)
exchangeTimestamp_Alone(p, m) ==
    [received |-> MemoInsert(received[p], m.id, m.from, m.ts),
     enqueue |-> TRUE, state |-> "S3", ts |-> m.ts]
exchangeTimestamp(p, m) ==
    LET memo == MemoInsert(received[p], m.id, m.from, m.ts)
        values == MemoRead(memo, m.id)
        tsm == MaxValue(values)
    IN  IF Cardinality(values) < Cardinality(Destination(m.id))
        THEN [received |-> memo, enqueue |-> FALSE,
              state |-> m.state, ts |-> m.ts]
        ELSE IF m.ts >= tsm
        THEN [received |-> memo, enqueue |-> TRUE,
              state |-> "S3", ts |-> m.ts]
        ELSE [received |-> memo, enqueue |-> TRUE,
              state |-> "S2", ts |-> tsm]

(***************************************************************************)
(* Peer.Stop cancels the peer's context and closes its transport: the      *)
(* peer's poll returns, so it takes no further message off the transport,  *)
(* and Broadcast and Unicast on the closed transport return an error.      *)
(***************************************************************************)
TransportOpen_Always(p) == TRUE
TransportOpen(p) == p \notin stopped
Listening(targets) == targets \ stopped

(***************************************************************************)
(* Peer.send: the peers that receive a message sent with the given         *)
(* emission.                                                               *)
(***************************************************************************)
SendTargets(p, id, emission) ==
    IF emission = "inner" THEN PeersOf(PartitionOf(p))
    ELSE UNION {PeersOf(part) : part \in Destination(id)}

\* types.Response: Success, Data, Failure.
Response(success, data, failure) ==
    [success |-> success, data |-> data, failure |-> failure]
NoResponse == Response(FALSE, <<>>, "unset")

\* A read that was answered: the peer, what it had committed, the Response.
NoRead == [peer |-> "none", committed |-> {}, response |-> NoResponse]

\* Every peer as NewPeer leaves it; nothing was issued.
Idle ==
    /\ clock = [p \in Peers |-> 0]
    /\ previousSet = [p \in Peers |-> {}]
    /\ received = [p \in Peers |-> [id \in UIDs |-> {}]]
    /\ rqueue = [p \in Peers |-> {}]
    /\ log = [p \in Peers |-> <<>>]
    /\ observers = [p \in Peers |-> {}]
    /\ tasks = [p \in Peers |-> EmptyBag]
    /\ issued = {}
    /\ answered = [id \in UIDs |-> {}]
    /\ channel = [id \in UIDs |-> <<>>]
    /\ closed = {}
    /\ stopped = {}
    /\ afterStop = {}
    /\ fastRead = NoRead
    /\ storage = <<>>
    /\ calls = <<>>
    /\ response = NoResponse

Init == Idle /\ workload \in Workloads

\* The client of identifier id has a successful Response on its channel.
Succeeded(id) == \E i \in 1..Len(channel[id]) : channel[id][i].success

(***************************************************************************)
(* Peer.Command: the channel is created and the apply task is spawned.     *)
(***************************************************************************)
Command ==
  \E id \in UIDs :
    /\ id \in workload \ issued
    /\ issued' = issued \cup {id}
    /\ answered' = [answered EXCEPT ![id] = {x \in issued : Succeeded(x)}]
    /\ tasks' = Put(tasks, {Origin(id)}, CommandTask(id, "broadcast"))
    /\ afterStop' = IF Origin(id) \in stopped THEN afterStop \cup {id}
                    ELSE afterStop
    /\ UNCHANGED <<clock, previousSet, received, rqueue, log, observers,
                   workload, channel, closed>>
    /\ UNCHANGED others

(***************************************************************************)
(* The apply task of Command: transport.Broadcast hands the message to     *)
(* every peer of every destination partition.                              *)
(***************************************************************************)
ApplyBroadcast ==
  \E p \in Peers : \E t \in Pending(p) :
    /\ t.kind = "command" /\ t.pc = "broadcast"
    /\ MayStart(p)
    /\ TransportOpen(p)
    /\ LET m == ProcessTask(t.id, "Initial", "S0", 0, PartitionOf(p), "elig")
           targets == Listening(SendTargets(p, t.id, "outer"))
       IN  /\ Room(tasks, targets, m)
           /\ tasks' = Put(Put(Take(tasks, p, t), targets, m),
                           {p}, CommandTask(t.id, "observe"))
    /\ UNCHANGED <<clock, previousSet, received, rqueue, log, observers,
                   workload, issued, answered, channel, closed>>
    /\ UNCHANGED <<afterStop, others>>

(***************************************************************************)
(* The apply task of Command when transport.Broadcast returns an error at  *)
(* the k-th partition of the destination: the partitions before it have    *)
(* the message, the failure Response is sent on the channel (its buffer    *)
(* of one is free, else the 100 ms timeout drops it) and apply returns.    *)
(***************************************************************************)
FailureResponse_Success(id) == Response(TRUE, <<Content(id)>>, "none")
\* finalResponse of apply: Success false, Data the content, Failure the error.
FailureResponse(id) == Response(FALSE, <<Content(id)>>, "broadcast")
ApplyBroadcastFails ==
  \E p \in Peers : \E t \in Pending(p) :
    /\ t.kind = "command" /\ t.pc = "broadcast"
    /\ MayStart(p)
    /\ \E k \in 1..Len(DestinationList(t.id)) :
         LET m == ProcessTask(t.id, "Initial", "S0", 0, PartitionOf(p), "elig")
             reached == {DestinationList(t.id)[i] : i \in 1..(k - 1)}
             targets == Listening(UNION {PeersOf(part) : part \in reached})
         IN  /\ TransportOpen(p) \/ k = 1
             /\ Room(tasks, targets, m)
             /\ tasks' = Put(Take(tasks, p, t), targets, m)
    /\ channel' = [channel EXCEPT ![t.id] =
                      IF Len(@) = 0
                      THEN Append(@, FailureResponse(t.id))
                      ELSE @]
    /\ UNCHANGED <<clock, previousSet, received, rqueue, log, observers,
                   workload, issued, answered, closed>>
    /\ UNCHANGED <<afterStop, others>>

\* The apply task of Command stores the observer after the broadcast.
ApplyObserve ==
  \E p \in Peers : \E t \in Pending(p) :
    /\ t.kind = "command" /\ t.pc = "observe"
    /\ observers' = [observers EXCEPT ![p] = @ \cup {t.id}]
    /\ tasks' = Take(tasks, p, t)
    /\ UNCHANGED <<clock, previousSet, received, rqueue, log,
                   workload, issued, answered, channel, closed>>
    /\ UNCHANGED <<afterStop, others>>

(***************************************************************************)
(* Peer.process, first part: the version check of the header and the       *)
(* eligibility check of the received queue.                                *)
(***************************************************************************)
Supported_Any(t) == TRUE
\* header.ProtocolVersion against p.configuration.Version.
Supported(t) == t.version = ProtocolVersion
ProcessEligible ==
  \E p \in Peers : \E t \in Pending(p) :
    /\ t.kind = "process" /\ t.pc = "elig"
    /\ Supported(t)
    /\ IsEligible(p, t.id) => MayStart(p)
    /\ tasks' = IF IsEligible(p, t.id)
                THEN Put(Take(tasks, p, t), {p}, [t EXCEPT !.pc = "proto"])
                ELSE Take(tasks, p, t)
    /\ IsEligible(p, t.id) => Room(Take(tasks, p, t), {p},
                                   [t EXCEPT !.pc = "proto"])
    /\ UNCHANGED <<clock, previousSet, received, rqueue, log, observers,
                   workload, issued, answered, channel, closed>>
    /\ UNCHANGED <<afterStop, others>>

(***************************************************************************)
(* Peer.process, Initial message: processInitialMessage, with the          *)
(* External messages it sends.                                             *)
(***************************************************************************)
ProcessInitial ==
  \E p \in Peers : \E t \in Pending(p) :
    /\ t.kind = "process" /\ t.pc = "proto" /\ t.type = "Initial"
    /\ LET r == processInitialMessage(p, t)
           next == [t EXCEPT !.state = r.state, !.ts = r.ts, !.pc = "enq"]
           ext == ProcessTask(t.id, "External", r.state, r.ts,
                              PartitionOf(p), "elig")
           targets == Listening(SendTargets(p, t.id, "outer"))
           mine == Put(Take(tasks, p, t), {p}, next)
           \* Unicast on the closed transport fails: send stays in its loop.
           looping == Put(Take(tasks, p, t), {p}, [next EXCEPT !.pc = "unicast"])
       IN  /\ clock' = [clock EXCEPT ![p] = r.clock]
           /\ previousSet' = [previousSet EXCEPT ![p] = r.previousSet]
           /\ received' = [received EXCEPT ![p] = r.received]
           /\ Room(Take(tasks, p, t), {p}, next)
           /\ IF r.send /\ TransportOpen(p)
              THEN /\ Room(mine, targets, ext)
                   /\ tasks' = Put(mine, targets, ext)
              ELSE IF r.send THEN tasks' = looping
              ELSE tasks' = mine
    /\ UNCHANGED <<rqueue, log, observers, workload, issued, answered, channel, closed>>
    /\ UNCHANGED <<afterStop, others>>

(***************************************************************************)
(* Peer.process, External message: exchangeTimestamp.                      *)
(***************************************************************************)
ProcessExternal ==
  \E p \in Peers : \E t \in Pending(p) :
    /\ t.kind = "process" /\ t.pc = "proto" /\ t.type = "External"
    /\ LET r == exchangeTimestamp(p, t)
           next == [t EXCEPT !.state = r.state, !.ts = r.ts, !.pc = "enq"]
       IN  /\ received' = [received EXCEPT ![p] = r.received]
           /\ IF r.enqueue
              THEN /\ Room(Take(tasks, p, t), {p}, next)
                   /\ tasks' = Put(Take(tasks, p, t), {p}, next)
              ELSE tasks' = Take(tasks, p, t)
    /\ UNCHANGED <<clock, previousSet, rqueue, log, observers,
                   workload, issued, answered, channel, closed>>
    /\ UNCHANGED <<afterStop, others>>

(***************************************************************************)
(* Peer.finishMessageProcessing: Enqueue, the head deliveries it triggers  *)
(* (Peer.doDeliver) and the spawn of reprocessMessage.                     *)
(***************************************************************************)
FinishMessageProcessing ==
  \E p \in Peers : \E t \in Pending(p) :
    /\ t.kind = "process" /\ t.pc = "enq"
    /\ LET m == Entry(t.id, t.ts, t.state)
           \* The queue checks the peer's context before it enqueues.
           advanced == p \notin stopped /\ EnqueueAdvances(rqueue[p], m)
           q == IF p \in stopped THEN rqueue[p] ELSE Inserted(rqueue[p], m)
           delivered == IF advanced THEN HeadDelivery(q) ELSE <<>>
           rest == tasks[p] (-) One(t)
           spawned == IF advanced
                      THEN rest (+) One(ReprocessTask(t.id, "-", 0, "get"))
                      ELSE rest
       IN  /\ advanced =>
                 CopiesIn(ReprocessTask(t.id, "-", 0, "get"), rest) < MaxCopies
           /\ \A i \in 1..Len(delivered) :
                 CopiesIn(NotifyTask(delivered[i].id, TRUE), rest) < MaxCopies
           /\ rqueue' = [rqueue EXCEPT ![p] = q \ SeqToSet(delivered)]
           /\ log' = [log EXCEPT ![p] = Commit(@, delivered, FALSE)]
           /\ received' = [received EXCEPT ![p] = RemoveAll(@, delivered)]
           /\ tasks' = [tasks EXCEPT ![p] = SpawnNotify(p, spawned, delivered)]
    /\ UNCHANGED <<clock, previousSet, observers, workload, issued, answered, channel, closed>>
    /\ UNCHANGED <<afterStop, others>>

(***************************************************************************)
(* Peer.reprocessMessage: the queue entry is read; an entry in S0 or S2    *)
(* goes through the updated channel and poll to send(m, Initial, inner);   *)
(* an entry in S3 goes to GenericDeliver.                                  *)
(***************************************************************************)
ReprocessMessage ==
  \E p \in Peers : \E t \in Pending(p) :
    /\ t.kind = "reprocess" /\ t.pc = "get"
    /\ LET value == GetIfExists(rqueue[p], t.id)
       IN  IF value = {} THEN tasks' = Take(tasks, p, t)
           ELSE LET e == CHOOSE x \in value : TRUE
                    resend == ProcessTask(e.id, "Initial", e.state, e.ts,
                                          PartitionOf(p), "elig")
                    targets == Listening(SendTargets(p, e.id, "inner"))
                    generic == ReprocessTask(e.id, e.state, e.ts, "generic")
                IN  IF e.state \in {"S0", "S2"} /\ p \in stopped
                    THEN tasks' = Take(tasks, p, t)
                    ELSE IF e.state \in {"S0", "S2"}
                    THEN /\ Room(Take(tasks, p, t), targets, resend)
                         /\ tasks' = Put(Take(tasks, p, t), targets, resend)
                    ELSE IF e.state = "S3"
                    THEN /\ MayStart(p)
                         /\ Room(Take(tasks, p, t), {p}, generic)
                         /\ tasks' = Put(Take(tasks, p, t), {p}, generic)
                    ELSE tasks' = Take(tasks, p, t)
    /\ UNCHANGED <<clock, previousSet, received, rqueue, log, observers,
                   workload, issued, answered, channel, closed>>
    /\ UNCHANGED <<afterStop, others>>

(***************************************************************************)
(* ReceivedQueue.GenericDeliver: an S3 entry with no conflicting entry     *)
(* ahead of it is delivered with isGenericDeliver = true.                  *)
(***************************************************************************)
CanGenericDeliver_Any(q, id) == \E e \in GetIfExists(q, id) : e.state = "S3"
\* The entry is in S3 and conflicts with no entry ahead of it.
CanGenericDeliver(q, id) ==
    \E e \in GetIfExists(q, id) :
        /\ e.state = "S3"
        /\ ~Conflict(id, {o.id : o \in Ahead(q, e)})
GenericDeliver ==
  \E p \in Peers : \E t \in Pending(p) :
    /\ t.kind = "reprocess" /\ t.pc = "generic"
    /\ IF CanGenericDeliver(rqueue[p], t.id) /\ p \notin stopped
       THEN LET e == CHOOSE x \in GetIfExists(rqueue[p], t.id) : TRUE
                q == rqueue[p] \ {e}
                delivered == HeadDelivery(q)
                rest == tasks[p] (-) One(t)
            IN  /\ \A i \in 1..Len(<<e>> \o delivered) :
                      CopiesIn(NotifyTask((<<e>> \o delivered)[i].id, TRUE),
                               rest) < MaxCopies
                /\ rqueue' = [rqueue EXCEPT ![p] = q \ SeqToSet(delivered)]
                /\ log' = [log EXCEPT ![p] =
                              Commit(Commit(@, <<e>>, TRUE), delivered, FALSE)]
                /\ received' = [received EXCEPT ![p] =
                                   RemoveAll(@, <<e>> \o delivered)]
                /\ tasks' = [tasks EXCEPT ![p] =
                                SpawnNotify(p, rest, <<e>> \o delivered)]
       ELSE /\ tasks' = Take(tasks, p, t)
            /\ UNCHANGED <<rqueue, log, received>>
    /\ UNCHANGED <<clock, previousSet, observers, workload, issued, answered, channel, closed>>
    /\ UNCHANGED <<afterStop, others>>

(***************************************************************************)
(* The notification task of Peer.doDeliver: under the peer's mutex, a      *)
(* registered observer receives the Response, its channel is closed and    *)
(* the observer is deleted.                                                *)
(***************************************************************************)
DeleteObserver_Kept(obs, id) == obs
\* delete(p.observers, obs.uid)
DeleteObserver(obs, id) == obs \ {id}
Notify ==
  \E p \in Peers : \E t \in Pending(p) :
    /\ t.kind = "notify"
    /\ IF t.id \in observers[p]
       THEN /\ channel' = [channel EXCEPT ![t.id] =
                              IF Len(@) = 0
                              THEN Append(@, Response(t.success,
                                                      <<Content(t.id)>>,
                                                      "none"))
                              ELSE @]
            /\ closed' = closed \cup {t.id}
            /\ observers' = [observers EXCEPT ![p] = DeleteObserver(@, t.id)]
       ELSE UNCHANGED <<channel, closed, observers>>
    /\ tasks' = Take(tasks, p, t)
    /\ UNCHANGED <<clock, previousSet, received, rqueue, log, workload, issued,
                   answered>>
    /\ UNCHANGED <<afterStop, others>>

Next ==
    \/ Command
    \/ ApplyBroadcast
    \/ ApplyObserve
    \/ ProcessEligible
    \/ ProcessInitial
    \/ ProcessExternal
    \/ FinishMessageProcessing
    \/ ReprocessMessage
    \/ GenericDeliver
    \/ Notify

Spec == Init /\ [][Next]_vars

(***************************************************************************)
(* The same peers with a transport whose Broadcast may return an error,    *)
(* under the workload of c and d.                                          *)
(***************************************************************************)
FailInit == Idle /\ workload = {"c", "d"}
FailNext == Next \/ ApplyBroadcastFails
FailSpec == FailInit /\ [][FailNext]_vars

(***************************************************************************)
(* Peer.Stop, on the peers that are stopped in a run.                      *)
(***************************************************************************)
Stoppable == {"q1"}
Stop ==
  \E p \in Stoppable :
    /\ p \notin stopped
    /\ stopped' = stopped \cup {p}
    /\ UNCHANGED <<clock, previousSet, received, rqueue, log, observers, tasks,
                   workload, issued, answered, channel, closed, afterStop,
                   fastRead, storage, calls, response>>

StopNext == FailNext \/ Stop
StopSpec == FailInit /\ [][StopNext]_vars

(***************************************************************************)
(* Peer.FastRead: the log is dumped and the content of every message in it *)
(* is returned in append order; when the dump fails the failure is         *)
(* returned.  Nothing of the peer is touched.                              *)
(***************************************************************************)
RECURSIVE Contents_Reversed(_)
Contents_Reversed(lg) ==
    IF lg = <<>> THEN <<>>
    ELSE Contents_Reversed(Tail(lg)) \o <<Content(lg[1].id)>>
RECURSIVE Contents(_)
Contents(lg) ==
    IF lg = <<>> THEN <<>>
    ELSE <<Content(lg[1].id)>> \o Contents(Tail(lg))
FastReadResponse_Empty(lg, dumpFails) == Response(TRUE, <<>>, "none")
FastReadResponse(lg, dumpFails) ==
    IF dumpFails THEN Response(FALSE, <<>>, "dump")
    ELSE Response(TRUE, Contents(lg), "none")
FastRead ==
  \E p \in Peers : \E dumpFails \in BOOLEAN :
    /\ fastRead' = [peer |-> p, committed |-> Committed(p),
                    response |-> FastReadResponse(log[p], dumpFails)]
    /\ UNCHANGED <<clock, previousSet, received, rqueue, log, observers, tasks,
                   workload, issued, answered, channel, closed, afterStop,
                   stopped, storage, calls, response>>

(***************************************************************************)
(* One partition with one peer: the writes d and e go to partition Q, the  *)
(* peer q1 serves them and is read.  No message has a second destination,  *)
(* so no External message exists and no entry waits behind another.        *)
(***************************************************************************)
SingleInit == Idle /\ workload = {"d", "e"}
SingleNext ==
    \/ Command
    \/ ApplyBroadcast
    \/ ApplyObserve
    \/ ProcessEligible
    \/ ProcessInitial
    \/ FinishMessageProcessing
    \/ ReprocessMessage
    \/ Notify
    \/ FastRead
SingleSpec == SingleInit /\ [][SingleNext]_vars

(***************************************************************************)
(* The Log on its own: Append keeps the message serialized in a LogEntry   *)
(* at the end of the storage, Size counts the entries, Dump reads every    *)
(* entry back into a message.  calls records the messages handed to        *)
(* Append, the i-th with timestamp i-1.                                    *)
(***************************************************************************)
MaxAppend == 4
LogUIDs == {"a", "b", "c"}
Serialize(m) == <<m.ts, m.id>>
Deserialize(bytes) == [id |-> bytes[2], ts |-> bytes[1]]
LogAppend_Front(st, m, generic) ==
    <<[data |-> Serialize(m), operation |-> "Command",
       generic |-> generic]>> \o st
LogAppend(st, m, generic) ==
    Append(st, [data |-> Serialize(m), operation |-> "Command",
                generic |-> generic])
LogSize(st) == Len(st)
LogDump(st) == [i \in 1..Len(st) |-> Deserialize(st[i].data)]
AppendMessage ==
  \E id \in LogUIDs :
    LET m == [id |-> id, ts |-> Len(calls)] IN
    /\ Len(calls) < MaxAppend
    /\ storage' = LogAppend(storage, m, FALSE)
    /\ calls' = Append(calls, m)
    /\ UNCHANGED <<clock, previousSet, received, rqueue, log, observers, tasks,
                   workload, issued, answered, channel, closed, afterStop,
                   stopped, fastRead, response>>
LogInit == Idle /\ workload = {}
LogNext == AppendMessage
LogSpec == LogInit /\ [][LogNext]_vars

(***************************************************************************)
(* Deliver.Commit over InMemoryStateMachine.Commit.  The state machine     *)
(* sets a Command in the store, reads the store for a Query and refuses    *)
(* any other operation; the store or the decoding of a stored value may    *)
(* fail.  Deliver.Commit turns the outcome into a Response.  calls keeps   *)
(* the last call: the message, its operation, what the state machine       *)
(* returned.                                                               *)
(***************************************************************************)
Operations == {"Command", "Query", "Unknown"}
Faults == {"none", "store", "unmarshal"}
ErrCommandUnknown_Nil == "none"
ErrCommandUnknown == "UnknownCommand"
\* InMemoryStateMachine.Commit: the store it leaves and the error it returns.
StateMachineCommit(st, id, operation, fault) ==
    CASE operation = "Command" ->
            IF fault = "store" THEN [store |-> st, err |-> "store"]
            ELSE [store |-> Append(st, [key |-> id, value |-> Content(id),
                                        type |-> operation]),
                  err |-> "none"]
      [] operation = "Query" ->
            IF fault = "none" THEN [store |-> st, err |-> "none"]
            ELSE [store |-> st, err |-> fault]
      [] OTHER -> [store |-> st, err |-> ErrCommandUnknown]
StoredContents_Reversed(st) == [i \in 1..Len(st) |-> st[Len(st) + 1 - i].value]
\* History(): the content of every stored entry, in append order.
StoredContents(st) == [i \in 1..Len(st) |-> st[i].value]
\* Deliver.Commit: the Response built from the state machine's outcome.
DeliverCommit(st, id, operation, err, historyFails) ==
    IF err # "none" THEN Response(FALSE, <<>>, err)
    ELSE CASE operation = "Command" -> Response(TRUE, <<Content(id)>>, "none")
           [] operation = "Query" ->
                 IF historyFails THEN Response(FALSE, <<>>, "history")
                 ELSE Response(TRUE, StoredContents(st), "none")
           [] OTHER -> Response(FALSE, <<>>, ErrCommandUnknown)
CommitMessage ==
  \E id \in LogUIDs : \E operation \in Operations : \E fault \in Faults :
  \E historyFails \in BOOLEAN :
    LET sm == StateMachineCommit(storage, id, operation, fault) IN
    /\ Len(sm.store) <= MaxAppend
    /\ storage' = sm.store
    /\ response' = DeliverCommit(sm.store, id, operation, sm.err,
                                 historyFails)
    /\ calls' = <<[id |-> id, operation |-> operation, err |-> sm.err]>>
    /\ UNCHANGED <<clock, previousSet, received, rqueue, log, observers, tasks,
                   workload, issued, answered, channel, closed, afterStop,
                   stopped, fastRead>>
CommitNext == CommitMessage
CommitSpec == LogInit /\ [][CommitNext]_vars

(***************************************************************************)
(* Messages of another protocol version: the transport hands the peer q1   *)
(* an Initial or External copy of d whose header carries ForeignVersion,   *)
(* and Peer.process returns at its version check.                          *)
(***************************************************************************)
ForeignMessage(id, type, p) ==
    [ProcessTask(id, type, IF type = "Initial" THEN "S0" ELSE "S1", 0,
                 PartitionOf(p), "elig") EXCEPT !.version = ForeignVersion]
ReceiveUnsupported ==
  \E type \in {"Initial", "External"} :
    LET m == ForeignMessage("d", type, "q1") IN
    /\ "d" \in workload
    /\ Room(tasks, {"q1"}, m)
    /\ tasks' = Put(tasks, {"q1"}, m)
    /\ UNCHANGED <<clock, previousSet, received, rqueue, log, observers,
                   workload, issued, answered, channel, closed>>
    /\ UNCHANGED <<afterStop, others>>
ProcessUnsupported ==
  \E p \in Peers : \E t \in Pending(p) :
    /\ t.kind = "process" /\ t.pc = "elig"
    /\ ~Supported(t)
    /\ tasks' = Take(tasks, p, t)
    /\ UNCHANGED <<clock, previousSet, received, rqueue, log, observers,
                   workload, issued, answered, channel, closed>>
    /\ UNCHANGED <<afterStop, others>>
VersionNext ==
    \/ Command
    \/ ApplyBroadcast
    \/ ApplyObserve
    \/ ReceiveUnsupported
    \/ ProcessUnsupported
    \/ ProcessEligible
    \/ ProcessInitial
    \/ FinishMessageProcessing
    \/ ReprocessMessage
    \/ Notify
VersionSpec == SingleInit /\ [][VersionNext]_vars

(***************************************************************************)
(* Peer.processInitialMessage of an S0 message, operation by operation.    *)
(* Every message is processed by a goroutine of its own and the clock and  *)
(* the previousSet are locked one operation at a time, so the operations   *)
(* of two goroutines of a peer interleave: the conflict check on the       *)
(* snapshot, Tick, Clear, the reading of the clock into the timestamp,     *)
(* Append.  The peer p1 receives copies of a and b, which conflict.        *)
(***************************************************************************)
MaxTick == 3
InitialStep(id, ts, conflicts, pc) ==
    [ProcessTask(id, "Initial", "S0", ts, "P", pc)
        EXCEPT !.conflicts = conflicts]
InitialArrives ==
  \E id \in {"a", "b"} :
    /\ clock["p1"] < MaxTick
    /\ \A t \in Pending("p1") : t.id # id
    /\ tasks' = Put(tasks, {"p1"}, InitialStep(id, 0, FALSE, "snapshot"))
    /\ UNCHANGED <<clock, previousSet, received, rqueue, log, observers,
                   workload, issued, answered, channel, closed>>
    /\ UNCHANGED <<afterStop, others>>
\* p.conflict.Conflict(*message, p.previousSet.Snapshot())
ConflictCheck ==
  \E p \in Peers : \E t \in Pending(p) :
    /\ t.pc = "snapshot"
    /\ LET conflicts == Conflict(t.id, previousSet[p])
       IN  tasks' = Put(Take(tasks, p, t), {p},
                        InitialStep(t.id, t.ts, conflicts,
                                    IF conflicts THEN "tick" ELSE "tock"))
    /\ UNCHANGED <<clock, previousSet, received, rqueue, log, observers,
                   workload, issued, answered, channel, closed>>
    /\ UNCHANGED <<afterStop, others>>
\* p.clock.Tick()
ClockTick ==
  \E p \in Peers : \E t \in Pending(p) :
    /\ t.pc = "tick"
    /\ clock' = [clock EXCEPT ![p] = @ + 1]
    /\ tasks' = Put(Take(tasks, p, t), {p}, [t EXCEPT !.pc = "clear"])
    /\ UNCHANGED <<previousSet, received, rqueue, log, observers,
                   workload, issued, answered, channel, closed>>
    /\ UNCHANGED <<afterStop, others>>
\* p.previousSet.Clear()
PreviousSetClear ==
  \E p \in Peers : \E t \in Pending(p) :
    /\ t.pc = "clear"
    /\ previousSet' = [previousSet EXCEPT ![p] = {}]
    /\ tasks' = Put(Take(tasks, p, t), {p}, [t EXCEPT !.pc = "tock"])
    /\ UNCHANGED <<clock, received, rqueue, log, observers,
                   workload, issued, answered, channel, closed>>
    /\ UNCHANGED <<afterStop, others>>
\* message.Timestamp = p.clock.Tock()
ClockTock ==
  \E p \in Peers : \E t \in Pending(p) :
    /\ t.pc = "tock"
    /\ tasks' = Put(Take(tasks, p, t), {p},
                    [t EXCEPT !.ts = clock[p], !.pc = "append"])
    /\ UNCHANGED <<clock, previousSet, received, rqueue, log, observers,
                   workload, issued, answered, channel, closed>>
    /\ UNCHANGED <<afterStop, others>>
\* p.previousSet.Append(*message)
PreviousSetAppend ==
  \E p \in Peers : \E t \in Pending(p) :
    /\ t.pc = "append"
    /\ previousSet' = [previousSet EXCEPT ![p] = @ \cup {t.id}]
    /\ tasks' = Take(tasks, p, t)
    /\ UNCHANGED <<clock, received, rqueue, log, observers,
                   workload, issued, answered, channel, closed>>
    /\ UNCHANGED <<afterStop, others>>
TickInit == Idle /\ workload = {"a", "b"}
TickNext ==
    \/ InitialArrives
    \/ ConflictCheck
    \/ ClockTick
    \/ PreviousSetClear
    \/ ClockTock
    \/ PreviousSetAppend
TickSpec == TickInit /\ [][TickNext]_vars

(***************************************************************************)
(* The timestamp exchange on its own: the peer r1 receives External        *)
(* copies of c from its destination partitions Q and R, again and again    *)
(* and with the timestamps the senders may have assigned, and processes    *)
(* them up to the commit of c.                                             *)
(***************************************************************************)
ExternalTimestamps == {0, 1}
ExternalArrives ==
  \E from \in Destination("c") : \E ts \in ExternalTimestamps :
    LET m == ProcessTask("c", "External", "S1", ts, from, "elig") IN
    /\ Room(tasks, {"r1"}, m)
    /\ tasks' = Put(tasks, {"r1"}, m)
    /\ UNCHANGED <<clock, previousSet, received, rqueue, log, observers,
                   workload, issued, answered, channel, closed>>
    /\ UNCHANGED <<afterStop, others>>
ExchangeInit == Idle /\ workload = {"c", "d"}
ExchangeNext ==
    \/ ExternalArrives
    \/ ProcessEligible
    \/ ProcessExternal
    \/ ProcessInitial
    \/ FinishMessageProcessing
    \/ ReprocessMessage
ExchangeSpec == ExchangeInit /\ [][ExchangeNext]_vars

(***************************************************************************)
(* Peer.send, one Unicast at a time, over a transport whose Unicast may    *)
(* return an error up to MaxFailures times.  The peers q1 and r1 send c:   *)
(* as External message to its destination (outer) and as Initial message   *)
(* to their own partition (inner).  The for statement of send calls        *)
(* Unicast in its init clause only: after an error the condition           *)
(* err != nil is evaluated again and again on the same err, the body logs, *)
(* and Unicast is not called again.                                        *)
(***************************************************************************)
MaxFailures == 2
SendTask(id, type, p, next, pc) ==
    [ProcessTask(id, type, "S1", 0, PartitionOf(p), pc)
        EXCEPT !.kind = "send", !.next = next]
\* The partitions send walks through.
SendDestination(p, t) ==
    IF t.type = "Initial" THEN <<PartitionOf(p)>> ELSE DestinationList(t.id)
Failing == {<<p, t>> \in Peers \X UNION {Pending(q) : q \in Peers} :
               t \in Pending(p) /\ t.kind = "send" /\ t.pc = "retry"}
SendStarts ==
  \E p \in {"q1", "r1"} : \E type \in {"Initial", "External"} :
    /\ \A t \in Pending(p) : ~(t.kind = "send" /\ t.type = type)
    /\ tasks' = Put(tasks, {p}, SendTask("c", type, p, 1, "unicast"))
    /\ UNCHANGED <<clock, previousSet, received, rqueue, log, observers,
                   workload, issued, answered, channel, closed>>
    /\ UNCHANGED <<afterStop, others>>
\* Unicast returns nil: the peers of the partition have the message and
\* send goes on to the next partition, or returns after the last.
UnicastSucceeds ==
  \E p \in Peers : \E t \in Pending(p) :
    /\ t.kind = "send" /\ t.pc = "unicast"
    /\ LET dest == SendDestination(p, t)
           m == ProcessTask(t.id, t.type, t.state, t.ts, t.from, "elig")
           targets == PeersOf(dest[t.next])
           rest == Take(tasks, p, t)
       IN  /\ Room(rest, targets, m)
           /\ tasks' = IF t.next = Len(dest) THEN Put(rest, targets, m)
                       ELSE Put(Put(rest, targets, m), {p},
                                [t EXCEPT !.next = @ + 1])
    /\ UNCHANGED <<clock, previousSet, received, rqueue, log, observers,
                   workload, issued, answered, channel, closed>>
    /\ UNCHANGED <<afterStop, others>>
\* Unicast returns an error: send enters the loop on err.
UnicastFails ==
  \E p \in Peers : \E t \in Pending(p) :
    /\ t.kind = "send" /\ t.pc = "unicast"
    /\ Cardinality(Failing) < MaxFailures
    /\ tasks' = Put(Take(tasks, p, t), {p}, [t EXCEPT !.pc = "retry"])
    /\ UNCHANGED <<clock, previousSet, received, rqueue, log, observers,
                   workload, issued, answered, channel, closed>>
    /\ UNCHANGED <<afterStop, others>>
\* One turn of the loop: err is still the error, the body logs it.
SendLoops ==
  \E p \in Peers : \E t \in Pending(p) :
    /\ t.kind = "send" /\ t.pc = "retry"
    /\ UNCHANGED vars
SendNext ==
    \/ SendStarts
    \/ UnicastSucceeds
    \/ UnicastFails
    \/ SendLoops
SendSpec == ExchangeInit /\ [][SendNext]_vars

(***************************************************************************)
(* Peer.Stop and the select of Peer.reprocessMessage, step by step, at    *)
(* the peer r1 of the timestamp exchange.  Stop cancels the context and    *)
(* closes the transport, and closes the updated channel as it returns      *)
(* (deferred).  reprocessMessage reads the entry and, for an entry in S0   *)
(* or S2, evaluates its select: a case that can proceed is taken, and      *)
(* when several can, any of them; when none can the goroutine blocks       *)
(* until the poller receives, the context is cancelled or the 100 ms       *)
(* timer fires.  A send on a closed channel is a case that can proceed:    *)
(* it panics.  A goroutine blocked in the select is woken by the           *)
(* cancellation, which precedes the close.                                 *)
(***************************************************************************)
StopTask ==
    [kind |-> "stop", version |-> ProtocolVersion, conflicts |-> FALSE,
     next |-> 0, id |-> "-",
     type |-> "-", state |-> "-", ts |-> 0, from |-> "-", pc |-> "close", success |-> TRUE]
\* The updated channel of p is closed once Stop has returned.
UpdatedClosed(p) == p \in stopped /\ \A t \in Pending(p) : t.kind # "stop"
\* p.finish() and p.transport.Close()
StopCancels ==
    /\ "r1" \notin stopped
    /\ stopped' = stopped \cup {"r1"}
    /\ tasks' = Put(tasks, {"r1"}, StopTask)
    /\ UNCHANGED <<clock, previousSet, received, rqueue, log, observers,
                   workload, issued, answered, channel, closed, afterStop,
                   fastRead, storage, calls, response>>
\* close(p.updated), deferred
StopCloses ==
  \E p \in Peers : \E t \in Pending(p) :
    /\ t.kind = "stop"
    /\ tasks' = Take(tasks, p, t)
    /\ UNCHANGED <<clock, previousSet, received, rqueue, log, observers,
                   workload, issued, answered, channel, closed>>
    /\ UNCHANGED <<afterStop, others>>
\* value := p.rqueue.GetIfExists(string(uid)) and the tests on its state
ReprocessGet ==
  \E p \in Peers : \E t \in Pending(p) :
    /\ t.kind = "reprocess" /\ t.pc = "get"
    /\ LET value == GetIfExists(rqueue[p], t.id)
           rest == Take(tasks, p, t)
       IN  IF value = {} THEN tasks' = rest
           ELSE LET e == CHOOSE x \in value : TRUE
                    select == ReprocessTask(e.id, e.state, e.ts, "select")
                    generic == ReprocessTask(e.id, e.state, e.ts, "generic")
                IN  IF e.state \in {"S0", "S2"}
                    THEN /\ Room(rest, {p}, select)
                         /\ tasks' = Put(rest, {p}, select)
                    ELSE IF e.state = "S3"
                    THEN /\ Room(rest, {p}, generic)
                         /\ tasks' = Put(rest, {p}, generic)
                    ELSE tasks' = rest
    /\ UNCHANGED <<clock, previousSet, received, rqueue, log, observers,
                   workload, issued, answered, channel, closed>>
    /\ UNCHANGED <<afterStop, others>>
\* No case can proceed: the goroutine blocks in the select.
SelectBlocks ==
  \E p \in Peers : \E t \in Pending(p) :
    /\ t.kind = "reprocess" /\ t.pc = "select"
    /\ p \notin stopped
    /\ Room(Take(tasks, p, t), {p}, [t EXCEPT !.pc = "blocked"])
    /\ tasks' = Put(Take(tasks, p, t), {p}, [t EXCEPT !.pc = "blocked"])
    /\ UNCHANGED <<clock, previousSet, received, rqueue, log, observers,
                   workload, issued, answered, channel, closed>>
    /\ UNCHANGED <<afterStop, others>>
\* case p.updated <- message: poll receives it and spawns
\* send(m, Initial, inner).
SelectSends ==
  \E p \in Peers : \E t \in Pending(p) :
    /\ t.kind = "reprocess" /\ t.pc \in {"select", "blocked"}
    /\ p \notin stopped
    /\ LET resend == ProcessTask(t.id, "Initial", t.state, t.ts,
                                 PartitionOf(p), "elig")
           targets == Listening(SendTargets(p, t.id, "inner"))
       IN  /\ Room(Take(tasks, p, t), targets, resend)
           /\ tasks' = Put(Take(tasks, p, t), targets, resend)
    /\ UNCHANGED <<clock, previousSet, received, rqueue, log, observers,
                   workload, issued, answered, channel, closed>>
    /\ UNCHANGED <<afterStop, others>>
\* case <-time.After(100 * time.Millisecond): p.reprocessMessage(uid)
SelectTimesOut ==
  \E p \in Peers : \E t \in Pending(p) :
    /\ t.kind = "reprocess" /\ t.pc = "blocked"
    /\ Room(Take(tasks, p, t), {p}, ReprocessTask(t.id, "-", 0, "get"))
    /\ tasks' = Put(Take(tasks, p, t), {p}, ReprocessTask(t.id, "-", 0, "get"))
    /\ UNCHANGED <<clock, previousSet, received, rqueue, log, observers,
                   workload, issued, answered, channel, closed>>
    /\ UNCHANGED <<afterStop, others>>
\* case <-p.context.Done(): return
SelectCancelled ==
  \E p \in Peers : \E t \in Pending(p) :
    /\ t.kind = "reprocess" /\ t.pc \in {"select", "blocked"}
    /\ p \in stopped
    /\ tasks' = Take(tasks, p, t)
    /\ UNCHANGED <<clock, previousSet, received, rqueue, log, observers,
                   workload, issued, answered, channel, closed>>
    /\ UNCHANGED <<afterStop, others>>
\* case p.updated <- message, taken on the closed channel: the goroutine
\* panics and is kept as it ended.
SelectSendsOnClosed ==
  \E p \in Peers : \E t \in Pending(p) :
    /\ t.kind = "reprocess" /\ t.pc = "select"
    /\ UpdatedClosed(p)
    /\ Room(Take(tasks, p, t), {p}, [t EXCEPT !.pc = "panic"])
    /\ tasks' = Put(Take(tasks, p, t), {p}, [t EXCEPT !.pc = "panic"])
    /\ UNCHANGED <<clock, previousSet, received, rqueue, log, observers,
                   workload, issued, answered, channel, closed>>
    /\ UNCHANGED <<afterStop, others>>
UpdatedNext ==
    \/ ExternalArrives
    \/ ProcessEligible
    \/ ProcessExternal
    \/ ProcessInitial
    \/ FinishMessageProcessing
    \/ ReprocessGet
    \/ SelectBlocks
    \/ SelectSends
    \/ SelectTimesOut
    \/ SelectCancelled
    \/ SelectSendsOnClosed
    \/ StopCancels
    \/ StopCloses
UpdatedSpec == ExchangeInit /\ [][UpdatedNext]_vars

(***************************************************************************)
(* Observations on the log of a peer.                                      *)
(***************************************************************************)
\* The peers that receive the message: those of its destination partitions.
DestinationPeers(id) == UNION {PeersOf(part) : part \in Destination(id)}
\* The position of the first commit of id in the log of p.
Position(p, id) ==
    CHOOSE i \in 1..Len(log[p]) :
        /\ log[p][i].id = id
        /\ \A j \in 1..(i - 1) : log[p][j].id # id
CommittedTimestamp(p, id) == log[p][Position(p, id)].ts
CommittedEverywhere(id) == \A p \in DestinationPeers(id) : id \in Committed(p)
\* The write that holds the key at p: the last one committed for it
\* (last write wins).
RECURSIVE LastWrite(_, _)
LastWrite(lg, key) ==
    IF lg = <<>> THEN "none"
    ELSE IF Key(lg[Len(lg)].id) = key THEN lg[Len(lg)].id
    ELSE LastWrite(SubSeq(lg, 1, Len(lg) - 1), key)
\* No goroutine of any peer is left and every write was issued.
Quiescent ==
    /\ issued = workload
    /\ \A p \in Peers : tasks[p] = EmptyBag

\* C1: two peers of one partition commit any two conflicting messages,
\* committed at both, in the same relative order.
C1_SameOrder ==
    \A p \in Peers : \A q \in PeersOf(PartitionOf(p)) :
        \A m \in Committed(p) \cap Committed(q) :
            \A n \in Committed(p) \cap Committed(q) :
                (m # n /\ ConflictPair(m, n)) =>
                    ((Position(p, m) < Position(p, n))
                        <=> (Position(q, m) < Position(q, n)))

\* C2: a message is committed with the same timestamp at every peer of
\* every destination partition.
C2_SameTimestamp ==
    \A id \in UIDs : \A p \in DestinationPeers(id) :
        \A q \in DestinationPeers(id) :
            (id \in Committed(p) /\ id \in Committed(q)) =>
                CommittedTimestamp(p, id) = CommittedTimestamp(q, id)

\* C3: at a peer every message identifier is committed at most once.
C3_CommitOnce ==
    \A p \in Peers : \A i \in 1..Len(log[p]) : \A j \in 1..Len(log[p]) :
        log[p][i].id = log[p][j].id => i = j

\* C4: once a message is committed at the peer on which Command was called
\* and the apply and notification tasks of that peer have run, the channel
\* of Command has yielded exactly one Response; it never yields more.
C4_ExactlyOneResponse ==
    \A id \in issued :
        /\ Len(channel[id]) <= 1
        /\ ( /\ id \in Committed(Origin(id))
             /\ \A t \in Pending(Origin(id)) :
                   ~(t.id = id /\ t.kind \in {"command", "notify"}) )
           => Len(channel[id]) = 1

\* C5: when nothing is lost and no peer is stopped, every issued message is
\* eventually committed at every peer of its destination and its client
\* eventually holds a successful Response.  No step leaves a state without
\* goroutines, so there both must already have happened.
C5_EventuallyCommitted ==
    Quiescent =>
        \A id \in issued : CommittedEverywhere(id) /\ Succeeded(id)

\* C6: writes to one key and one set of partitions, once all committed,
\* leave the same final value for the key at every peer addressed.
C6_Convergence ==
    \A m \in issued : \A n \in issued :
        ( /\ m # n /\ Key(m) = Key(n) /\ Destination(m) = Destination(n)
          /\ CommittedEverywhere(m) /\ CommittedEverywhere(n) )
        => \A p \in DestinationPeers(m) : \A q \in DestinationPeers(m) :
               LastWrite(log[p], Key(m)) = LastWrite(log[q], Key(m))

\* C7: when a write is issued only after the previous write to the same key
\* and partitions returned a successful Response, then once both are
\* committed everywhere every peer holds the value of the later write.
C7_SequentialLastWins ==
    \A m \in issued : \A n \in issued :
        ( /\ m \in answered[n]
          /\ Key(m) = Key(n) /\ Destination(m) = Destination(n)
          /\ CommittedEverywhere(m) /\ CommittedEverywhere(n) )
        => \A p \in DestinationPeers(n) : LastWrite(log[p], Key(n)) = n

\* C8: at a peer, a message committed after a conflicting message has a
\* timestamp greater than or equal to that message's.
C8_ConflictTimestampOrder ==
    \A p \in Peers : \A i \in 1..Len(log[p]) : \A j \in 1..Len(log[p]) :
        (i < j /\ ConflictPair(log[p][i].id, log[p][j].id)) =>
            log[p][j].ts >= log[p][i].ts

\* C9: at a peer the committed messages are in non-decreasing timestamp
\* order, those of equal timestamp in ascending identifier order.
C9_CommitOrder ==
    \A p \in Peers : \A i \in 1..Len(log[p]) : \A j \in 1..Len(log[p]) :
        i < j => ~Less(log[p][j], log[p][i])

\* C10: every committed message was handed over in state S3, and from the
\* moment a message is in S3 in the received queue of a peer its timestamp
\* is final there: an S3 entry keeps its state and timestamp while it is
\* queued, and once it was delivered no later copy puts the message back
\* into the queue with another timestamp.
DeliveredInS3 ==
    \A p \in Peers : \A i \in 1..Len(log[p]) : log[p][i].state = "S3"
S3Fixed ==
    \A p \in Peers : \A e \in rqueue[p] :
        e.state = "S3" =>
            \A f \in GetIfExists(rqueue'[p], e.id) :
                f.state = "S3" /\ f.ts = e.ts
CommittedFixed ==
    \A p \in Peers : \A e \in rqueue[p] :
        e.id \in Committed(p) => e.ts = CommittedTimestamp(p, e.id)
C10_S3Final == []DeliveredInS3 /\ [][S3Fixed]_vars /\ []CommittedFixed

\* C11: when the Broadcast of Command(m) returns an error (the apply task
\* returns without going on to store the observer), the channel holds a
\* Response with success = false and the error as failure, and what the
\* channel holds is never replaced afterwards.
ApplyPending(id, tk) ==
    \E t \in BagToSet(tk[Origin(id)]) : t.kind = "command" /\ t.id = id
BroadcastReturnedError(id) ==
    /\ CommandTask(id, "broadcast") \in Pending(Origin(id))
    /\ ~ApplyPending(id, tasks')
FailureYielded(id) ==
    /\ Len(channel'[id]) = 1
    /\ channel'[id][1].success = FALSE
    /\ channel'[id][1].failure = "broadcast"
C11_BroadcastFailure ==
    /\ [][\A id \in UIDs : BroadcastReturnedError(id) => FailureYielded(id)]_vars
    /\ [][\A id \in UIDs : Len(channel[id]) = 1 => channel'[id] = channel[id]]_vars
\* A Command whose broadcast failed, with the failure Response on its channel.
C11_FailureOnChannel ==
    \E id \in issued :
        /\ ~ApplyPending(id, tasks)
        /\ Len(channel[id]) = 1 /\ ~channel[id][1].success
        /\ id \notin observers[Origin(id)]

\* C12: once the Response of a Command is on its channel the channel is
\* closed, on the commit path and on the broadcast-failure path.
C12_ClosedAfterSend ==
    \A id \in issued : Len(channel[id]) > 0 => id \in closed

\* C13: the observer of Command(m) is stored before m is broadcast: whenever
\* a copy of m waits at a peer or was received by one, the observer for m
\* is registered at the originating peer or has already fired.
CopyAbroad(id) ==
    \E p \in Peers :
        \/ \E t \in Pending(p) : t.kind # "command" /\ t.id = id
        \/ GetIfExists(rqueue[p], id) # {}
        \/ id \in Committed(p)
C13_ObserverBeforeBroadcast ==
    \A id \in issued :
        CopyAbroad(id) =>
            (id \in observers[Origin(id)] \/ Len(channel[id]) > 0)

\* C14: when the notification task of a committed message runs while an
\* observer for the message is registered, the observer is gone from the
\* observers map afterwards, whether the Response went onto the channel or
\* the send timed out.
NotificationRan(p, id) ==
    /\ id \in observers[p]
    /\ CopiesIn(NotifyTask(id, TRUE), tasks'[p])
         < CopiesIn(NotifyTask(id, TRUE), tasks[p])
C14_ObserverRemoved ==
    [][\A p \in Peers : \A id \in UIDs :
          NotificationRan(p, id) => id \notin observers'[p]]_vars
\* An observer was registered, was notified and is removed.
C14_NotifiedAndRemoved ==
    \E id \in issued :
        /\ id \in closed
        /\ Len(channel[id]) = 1 /\ channel[id][1].success
        /\ id \notin observers[Origin(id)]

\* C15: after Stop has returned on a peer no delivery callback fires at that
\* peer any more: nothing is committed to its log and none of its observers
\* is notified.  (That every task of the peer returns is the other half of
\* the claim; the callbacks alone decide it.)
C15_NoCallbackAfterStop ==
    [][\A p \in stopped :
          /\ log'[p] = log[p]
          /\ observers[p] \subseteq observers'[p]]_vars

Holds(data, content) == \E i \in 1..Len(data) : data[i] = content
C17_ReadAfterWrite ==
    (fastRead.peer # "none" /\ fastRead.response.failure = "none") =>
        /\ fastRead.response.success
        /\ \A id \in fastRead.committed :
               Holds(fastRead.response.data, Content(id))
\* The peer of partition Q was read after it committed the write d.
C17_ReadCommittedWrite ==
    /\ fastRead.peer = "q1"
    /\ "d" \in fastRead.committed
    /\ fastRead.response.failure = "none"

(***************************************************************************)
(* C19: a FastRead step changes no clock, previousSet, Memo, queue,        *)
(* observer or log and starts no task (nothing is sent); its Response is   *)
(* either a success with the content of the log entries of the peer in     *)
(* append order, or not a success and carries the failure of the dump.     *)
(***************************************************************************)
FastReadAnswered == fastRead' # fastRead
LogContents(p) == [i \in 1..Len(log[p]) |-> Content(log[p][i].id)]
C19_FastReadFrame ==
    [][FastReadAnswered =>
        /\ UNCHANGED <<clock, previousSet, received, rqueue, observers, log,
                       tasks, channel, closed>>
        /\ \/ /\ fastRead'.response.success
              /\ fastRead'.response.failure = "none"
              /\ fastRead'.response.data = LogContents(fastRead'.peer)
           \/ /\ ~fastRead'.response.success
              /\ fastRead'.response.failure # "none"]_vars
\* A read returned the two entries of a log.
C19_ReadTwoEntries ==
    /\ fastRead.peer = "q1"
    /\ fastRead.response.success
    /\ Len(fastRead.response.data) = 2
    /\ Len(log["q1"]) = 2

(***************************************************************************)
(* C18: after n Append calls Size is n and Dump returns the n appended     *)
(* messages in the order of the calls.                                     *)
(***************************************************************************)
C18_AppendSizeDump ==
    /\ LogSize(storage) = Len(calls)
    /\ LogDump(storage) = calls
\* Three messages were appended, the first two with different identifiers.
C18_ThreeAppended ==
    /\ Len(calls) = 3
    /\ calls[1].id # calls[2].id

(***************************************************************************)
(* C20: Deliver.Commit answers success=false with a failure whenever the   *)
(* state machine returned an error and whenever the operation is neither   *)
(* Command nor Query; the state machine answers an unrecognized operation  *)
(* with UnknownCommand and leaves the store as it was.                     *)
(***************************************************************************)
Unrecognized(call) == call.operation \notin {"Command", "Query"}
CommitFailureReported ==
    \A i \in 1..Len(calls) :
        (calls[i].err # "none" \/ Unrecognized(calls[i])) =>
            ~response.success /\ response.failure # "none"
UnknownLeavesStore ==
    \A i \in 1..Len(calls') :
        Unrecognized(calls'[i]) =>
            calls'[i].err = "UnknownCommand" /\ storage' = storage
C20_CommitFailure == []CommitFailureReported /\ [][UnknownLeavesStore]_vars
\* An unrecognized operation was committed on a store that holds a write.
C20_UnknownOnStore ==
    /\ Len(calls) = 1 /\ Unrecognized(calls[1])
    /\ Len(storage) > 0
    /\ ~response.success

(***************************************************************************)
(* C21: when the state machine commits without an error and the history    *)
(* is read without a failure, Deliver.Commit answers success=true; the     *)
(* data of a Command is the single content of the message, the data of a   *)
(* Query is the content of every stored message in append order.           *)
(***************************************************************************)
C21_CommitSuccess ==
    \A i \in 1..Len(calls) :
        (calls[i].err = "none" /\ response.failure = "none") =>
            /\ response.success
            /\ calls[i].operation = "Command" =>
                   response.data = <<Content(calls[i].id)>>
            /\ calls[i].operation = "Query" =>
                   /\ Len(response.data) = Len(storage)
                   /\ \A k \in 1..Len(storage) :
                          response.data[k] = storage[k].value
\* A Query answered from a store that holds two different writes.
C21_QueryTwoWrites ==
    /\ Len(calls) = 1 /\ calls[1].operation = "Query"
    /\ response.success
    /\ Len(response.data) = 2 /\ response.data[1] # response.data[2]

(***************************************************************************)
(* C22: the step in which a peer processes a message whose protocol        *)
(* version differs from its own leaves clock, previousSet, Memo, received  *)
(* queue and log of every peer unchanged, and no peer gets a new task:     *)
(* nothing is sent.                                                        *)
(***************************************************************************)
UnsupportedProcessed ==
    \E p \in Peers : \E t \in Pending(p) :
        /\ t.kind = "process" /\ t.version # ProtocolVersion
        /\ CopiesIn(t, tasks'[p]) < CopiesIn(t, tasks[p])
NothingSpawned ==
    \A q \in Peers : \A u \in BagToSet(tasks'[q]) :
        CopiesIn(u, tasks'[q]) <= CopiesIn(u, tasks[q])
C22_UnsupportedDropped ==
    [][UnsupportedProcessed =>
        /\ UNCHANGED <<clock, previousSet, received, rqueue, log>>
        /\ NothingSpawned]_vars
\* A message of the other version was handed to q1 after q1 committed d.
C22_UnsupportedArrived ==
    /\ "d" \in Committed("q1")
    /\ \E t \in Pending("q1") : t.version # ProtocolVersion

(***************************************************************************)
(* C23: a message with exactly one destination partition leaves its        *)
(* Initial processing in S3 with the clock value of the peer as timestamp, *)
(* in that one step; it is never in S1 or S2 anywhere, no External copy    *)
(* of it exists and no Memo holds an entry for it.                         *)
(***************************************************************************)
OneDestination(id) == Cardinality(Destination(id)) = 1
SkipsExchange ==
    \A p \in Peers : \A id \in UIDs :
        OneDestination(id) =>
            /\ \A t \in Pending(p) :
                   t.id = id => t.state \notin {"S1", "S2"} /\ t.type # "External"
            /\ \A e \in rqueue[p] : e.id = id => e.state \notin {"S1", "S2"}
            /\ received[p][id] = {}
InitialToFinal ==
    \A p \in Peers : \A t \in Pending(p) :
        ( /\ t.kind = "process" /\ t.pc = "proto" /\ t.type = "Initial"
          /\ t.state = "S0" /\ OneDestination(t.id)
          /\ CopiesIn(t, tasks'[p]) < CopiesIn(t, tasks[p]) )
        => [t EXCEPT !.state = "S3", !.ts = clock'[p], !.pc = "enq"]
               \in BagToSet(tasks'[p])
C23_SingleDestination == []SkipsExchange /\ [][InitialToFinal]_vars
\* A single-destination message left Initial processing in S3 after the
\* clock of the peer had ticked for it.
C23_FinalAfterTick ==
    \E p \in Peers : \E t \in Pending(p) :
        /\ OneDestination(t.id) /\ t.kind = "process" /\ t.pc = "enq"
        /\ t.state = "S3" /\ t.ts = 1 /\ clock[p] = 1

(***************************************************************************)
(* C24: when the Initial processing of an S0 message m found a conflict    *)
(* with the previousSet, then as it appends m the timestamp of m is a      *)
(* clock value reached by a tick and the previousSet is left holding       *)
(* exactly m; when it found none, m is added to the previousSet as it was. *)
(***************************************************************************)
InitialAppended(p, t) ==
    /\ t.kind = "process" /\ t.pc = "append"
    /\ CopiesIn(t, tasks'[p]) < CopiesIn(t, tasks[p])
C24_ConflictTick ==
    [][\A p \in Peers : \A t \in Pending(p) :
          InitialAppended(p, t) =>
              IF t.conflicts
              THEN previousSet'[p] = {t.id} /\ t.ts >= 1
              ELSE previousSet'[p] = previousSet[p] \cup {t.id}]_vars

(***************************************************************************)
(* C25: when the processing of an External copy of m at a peer of          *)
(* partition P completes the Memo of m (one timestamp per destination),    *)
(* with tsm the maximum and tP the timestamp P assigned: m goes on to      *)
(* Enqueue in S3 with timestamp tP if tP >= tsm, else in S2 with tsm.      *)
(***************************************************************************)
OwnTimestamp(memo, part) == (CHOOSE e \in memo : e.partition = part).ts
ExchangeCompleted(p, t) ==
    /\ t.kind = "process" /\ t.pc = "proto" /\ t.type = "External"
    /\ CopiesIn(t, tasks'[p]) < CopiesIn(t, tasks[p])
    /\ {e.partition : e \in received'[p][t.id]} = Destination(t.id)
C25_OwnTimestampDecides ==
    [][\A p \in Peers : \A t \in Pending(p) :
          ExchangeCompleted(p, t) =>
              LET tP == OwnTimestamp(received'[p][t.id], PartitionOf(p))
                  tsm == MaxValue(received'[p][t.id])
              IN  IF tP >= tsm
                  THEN [t EXCEPT !.state = "S3", !.ts = tP, !.pc = "enq"]
                           \in BagToSet(tasks'[p])
                  ELSE [t EXCEPT !.state = "S2", !.ts = tsm, !.pc = "enq"]
                           \in BagToSet(tasks'[p])]_vars

(***************************************************************************)
(* C26: at a peer the clock is never below the timestamp of a message the  *)
(* peer has moved to S3: the message on its way to Enqueue, in the         *)
(* received queue, or committed.                                           *)
(***************************************************************************)
C26_ClockCoversFinal ==
    \A p \in Peers :
        /\ \A t \in Pending(p) :
               (t.kind = "process" /\ t.pc = "enq" /\ t.state = "S3") =>
                   clock[p] >= t.ts
        /\ \A e \in rqueue[p] : e.state = "S3" => clock[p] >= e.ts
        /\ \A i \in 1..Len(log[p]) : clock[p] >= log[p][i].ts

(***************************************************************************)
(* C27: the processing of an External copy of m hands m on to Enqueue      *)
(* only when the Memo then holds a timestamp of every partition of         *)
(* m.destination; a later copy from one partition replaces the entry of    *)
(* that partition, so a Memo never holds more timestamps for m than m has  *)
(* destinations.                                                           *)
(***************************************************************************)
ExternalEnqueued(p, t) ==
    /\ t.kind = "process" /\ t.pc = "proto" /\ t.type = "External"
    /\ CopiesIn(t, tasks'[p]) < CopiesIn(t, tasks[p])
    /\ \E u \in BagToSet(tasks'[p]) :
          /\ u.id = t.id /\ u.pc = "enq"
          /\ CopiesIn(u, tasks'[p]) > CopiesIn(u, tasks[p])
MemoComplete ==
    \A p \in Peers : \A t \in Pending(p) :
        ExternalEnqueued(p, t) =>
            {e.partition : e \in received'[p][t.id]} = Destination(t.id)
MemoBounded ==
    \A p \in Peers : \A id \in UIDs :
        Cardinality(received[p][id]) <= Cardinality(Destination(id))
C27_MemoPerPartition == [][MemoComplete]_vars /\ []MemoBounded
\* The exchange for c completed at r1 with the timestamp 1 of partition Q
\* in the Memo while a copy from Q with timestamp 0 is there as well.
C27_ExchangeCompleted ==
    /\ [partition |-> "Q", ts |-> 1] \in received["r1"]["c"]
    /\ \E t \in Pending("r1") : t.id = "c" /\ t.pc = "enq"
    /\ \E t \in Pending("r1") :
          t.type = "External" /\ t.from = "Q" /\ t.ts = 0

(***************************************************************************)
(* C28: the Initial processing step that moves a message with more than    *)
(* one destination from S0 to S1 at a peer hands an External copy,         *)
(* stamped with the partition and the timestamp of the peer, to the peers  *)
(* of every other destination partition, and to no peer of its own.        *)
(***************************************************************************)
MovedToS1(p, t) ==
    /\ t.kind = "process" /\ t.pc = "proto" /\ t.type = "Initial"
    /\ t.state = "S0" /\ ~OneDestination(t.id)
    /\ CopiesIn(t, tasks'[p]) < CopiesIn(t, tasks[p])
C28_ExternalToOthers ==
    [][\A p \in Peers : \A t \in Pending(p) :
          MovedToS1(p, t) =>
              LET ext == ProcessTask(t.id, "External", "S1", clock'[p],
                                     PartitionOf(p), "elig")
              IN  \A q \in Peers :
                      (CopiesIn(ext, tasks'[q]) > CopiesIn(ext, tasks[q]))
                          <=> (PartitionOf(q) \in
                                  Destination(t.id) \ {PartitionOf(p)})]_vars

(***************************************************************************)
(* C29: an entry left in S0 or S2 in the received queue of a peer is       *)
(* submitted again for Initial processing by reprocessMessage, an entry    *)
(* in S3 and any entry of a stopped peer is not; and when no goroutine is  *)
(* left anywhere no queue holds an entry in S0 or S2 any more: every       *)
(* message that reached S2 went on to S3.                                  *)
(***************************************************************************)
Resubmitted(p, e) ==
    LET resend == ProcessTask(e.id, "Initial", e.state, e.ts,
                              PartitionOf(p), "elig")
    IN  CopiesIn(resend, tasks'[p]) > CopiesIn(resend, tasks[p])
Reprocessed(p, t) ==
    /\ t.kind = "reprocess" /\ t.pc = "get"
    /\ CopiesIn(t, tasks'[p]) < CopiesIn(t, tasks[p])
ReprocessUntilFinal ==
    \A p \in Peers : \A t \in Pending(p) : \A e \in GetIfExists(rqueue[p], t.id) :
        Reprocessed(p, t) =>
            (Resubmitted(p, e) <=> (e.state \in {"S0", "S2"} /\ p \notin stopped))
NoneLeftBehind ==
    Quiescent =>
        \A p \in Peers \ stopped : \A e \in rqueue[p] : e.state \notin {"S0", "S2"}
C29_ReprocessUntilS3 == [][ReprocessUntilFinal]_vars /\ []NoneLeftBehind

(***************************************************************************)
(* C30: a send whose Unicast failed calls Unicast again: whenever no send  *)
(* is about to call Unicast, every send has returned, and the sends that   *)
(* were started have handed their message to the partitions.               *)
(***************************************************************************)
AboutToUnicast ==
    \E p \in Peers : \E t \in Pending(p) : t.kind = "send" /\ t.pc = "unicast"
C30_SendRetries ==
    ~AboutToUnicast => \A p \in Peers : \A t \in Pending(p) : t.kind # "send"

(***************************************************************************)
(* C31: a message delivered while it is not the head of the received       *)
(* queue is in S3, conflicts with no entry ahead of it in the queue, and   *)
(* is committed with generic_delivered = true.                             *)
(***************************************************************************)
\* What a step appends to the log of p, and the queue of p as it was when
\* the k-th of these entries was delivered.
Delivered(p) == SubSeq(log'[p], Len(log[p]) + 1, Len(log'[p]))
QueuedEntry(d) == Entry(d.id, d.ts, d.state)
QueueAt(p, k) ==
    rqueue'[p] \cup {QueuedEntry(Delivered(p)[j]) : j \in k..Len(Delivered(p))}
AheadOfHead ==
    \A p \in Peers : \A k \in 1..Len(Delivered(p)) :
        LET d == Delivered(p)[k]
            e == QueuedEntry(d)
        IN  e # QueueHead(QueueAt(p, k)) =>
                /\ d.state = "S3"
                /\ ~Conflict(d.id, {o.id : o \in Ahead(QueueAt(p, k), e)})
                /\ d.generic
C31_GenericDelivery == [][AheadOfHead]_vars
\* A message committed by generic delivery while an entry that was ahead
\* of it is still queued.
C31_CommittedAheadOfHead ==
    \E p \in Peers : \E i \in 1..Len(log[p]) :
        /\ log[p][i].generic
        /\ \E o \in rqueue[p] : Less(o, QueuedEntry(log[p][i]))

(***************************************************************************)
(* C32: a delivery that is not generic delivers the entry with the         *)
(* smallest (timestamp, id) of the received queue, and only in S3: no      *)
(* entry, in any state, with a smaller key is queued at the peer when it   *)
(* is delivered.                                                           *)
(***************************************************************************)
HeadFirst ==
    \A p \in Peers : \A k \in 1..Len(Delivered(p)) :
        LET d == Delivered(p)[k]
        IN  ~d.generic =>
                /\ d.state = "S3"
                /\ Ahead(QueueAt(p, k), QueuedEntry(d)) = {}
C32_HeadDelivery == [][HeadFirst]_vars
\* An entry in S3 still waits behind a conflicting entry with a smaller
\* key after its Enqueue and its reprocessMessage have run.
C32_FinalWaitsBehindHead ==
    \E p \in Peers : \E e \in rqueue[p] :
        /\ e.state = "S3"
        /\ Conflict(e.id, {o.id : o \in Ahead(rqueue[p], e)})
        /\ \A t \in Pending(p) : t.id # e.id

(***************************************************************************)
(* C33: when the clock of a peer increases, by Tick or by Leap, no         *)
(* message appended to previousSet before the increase is in previousSet   *)
(* after it, whatever the other goroutines of the peer do in between: no   *)
(* goroutine takes its snapshot of previousSet while the set still holds   *)
(* a message appended before an increase that has already happened.  A     *)
(* goroutine that has ticked and not yet cleared was spawned after the     *)
(* last append of its own identifier, so that identifier in previousSet    *)
(* was appended before the tick.                                           *)
(***************************************************************************)
TakesSnapshot(p, t) ==
    /\ t.pc = "snapshot"
    /\ CopiesIn(t, tasks'[p]) < CopiesIn(t, tasks[p])
TickedNotCleared(p) == {u \in Pending(p) : u.pc = "clear"}
ClearedOnIncrease ==
    \A p \in Peers : \A t \in Pending(p) :
        TakesSnapshot(p, t) =>
            \A u \in TickedNotCleared(p) : u.id \notin previousSet[p]
C33_ClearedOnIncrease == [][ClearedOnIncrease]_vars

(***************************************************************************)
(* C34: of two conflicting S0 messages processed by one peer, the one      *)
(* processed second gets a local timestamp strictly greater than the       *)
(* first, however the two goroutines interleave: two conflicting messages  *)
(* that both hold their local timestamp never hold the same one.           *)
(***************************************************************************)
Stamped(p) == {t \in Pending(p) : t.kind = "process" /\ t.pc = "append"}
C34_ConflictingApart ==
    \A p \in Peers : \A t \in Stamped(p) : \A u \in Stamped(p) :
        (t.id # u.id /\ ConflictPair(t.id, u.id)) => t.ts # u.ts

(***************************************************************************)
(* C35: no goroutine of a peer sends on the updated channel of the peer    *)
(* after Stop has closed it: a reprocessMessage that meets Stop leaves     *)
(* through the cancellation case of its select.                            *)
(***************************************************************************)
SentOnClosed(p) ==
    {t \in Pending(p) : t.kind = "reprocess" /\ t.pc = "panic"}
C35_NoSendOnClosed == \A p \in Peers : SentOnClosed(p) = {}

(***************************************************************************)
(* C36: when Command(m) yields the failure Response of a Broadcast that    *)
(* returned an error, m is committed at no peer, also when the partitions  *)
(* of m.Destination before the failing one have received m.                *)
(***************************************************************************)
BroadcastFailed(id) ==
    /\ Len(channel[id]) >= 1
    /\ channel[id][1] = FailureResponse(id)
C36_FailedNotCommitted ==
    \A id \in UIDs :
        BroadcastFailed(id) => \A p \in Peers : id \notin Committed(p)
\* The broadcast of c failed at R after Q had received c: q1 has enqueued
\* c and its External message has reached r1, and no goroutine is left.
C36_PartialBroadcast ==
    /\ BroadcastFailed("c")
    /\ GetIfExists(rqueue["q1"], "c") # {}
    /\ MemoRead(received["r1"], "c") # {}
    /\ \A p \in Peers : tasks[p] = EmptyBag

(***************************************************************************)
(* C37: once a peer has committed m its Memo holds no entry for m: the     *)
(* entry is removed at the delivery and no External copy of m, processed   *)
(* after the delivery or while it runs, creates it again.                  *)
(***************************************************************************)
C37_MemoGoneAfterCommit ==
    \A p \in Peers : \A id \in Committed(p) : MemoRead(received[p], id) = {}

====
